---- MODULE Spec2Model ----
(***************************************************************************)
(* Insurance charges analytics: the star-schema ETL (etl_to_dw.py) and the *)
(* OLAP cube aggregator (olap/olap_insurance_cubing.py).                   *)
(*                                                                         *)
(* A DataFrame is a record [columns, rows]: columns is the ordered list of *)
(* column names, rows the ordered list of rows, each row a function from   *)
(* the column names to values.  A value is <<>> (NaN / NULL) or <<x>>.     *)
(***************************************************************************)
EXTENDS Integers, Sequences, FiniteSets, TLC

VARIABLES
    csv,            \* data/prepared/insurance_prepared.csv: NoFile or a DataFrame
    committed,      \* the SQLite file as any other connection reads it
    txn,            \* the store as the ETL connection sees it (uncommitted work)
    pc,             \* position of load_data_to_db
    err,            \* exception that ended the run ("none" while none)
    out,            \* warnings printed by the current run
    stmts,          \* DML statements executed by the current run, in order
    analytic_df,    \* local of load_data_to_db
    dim_demo_df,    \* local of load_data_to_db
    dim_region_df,  \* local of load_data_to_db
    dim_risk_df,    \* local of load_data_to_db
    fact_df,        \* local of build_and_insert_fact (line 344)
    before,         \* history: committed store, and its source, when the run connected
    builtFrom,      \* history: source of the last committed build
    data_df,        \* create_olap_cube: the input table
    dimensions,     \* create_olap_cube: the dimension column names
    metrics,        \* create_olap_cube: measure column -> function(s)
    cube            \* create_olap_cube: the returned frame

etlVars == <<csv, committed, txn, pc, err, out, stmts, analytic_df, dim_demo_df,
             dim_region_df, dim_risk_df, fact_df, before, builtFrom>>

cubeVars == <<data_df, dimensions, metrics, cube>>

vars == <<etlVars, cubeVars>>

-----------------------------------------------------------------------------
(* Bounds *)

MaxRows == 2

-----------------------------------------------------------------------------
(* Values and generic sequence helpers *)

Null == <<>>
Some(x) == <<x>>
IsNull(v) == v = Null

Range(s) == {s[i] : i \in 1..Len(s)}

Contains(s, x) == \E i \in 1..Len(s) : s[i] = x

RECURSIVE SeqsUpTo(_, _)
SeqsUpTo(S, n) ==
    IF n = 0 THEN {<<>>}
    ELSE LET shorter == SeqsUpTo(S, n - 1)
         IN  shorter \cup {Append(s, x) : s \in {t \in shorter : Len(t) = n - 1}, x \in S}

-----------------------------------------------------------------------------
(* pandas operations used by the ETL *)

NoFrame == [columns |-> <<>>, rows |-> <<>>]

HasCol(df, c) == Contains(df.columns, c)

\* df[cols]
SelectCols(df, cols) ==
    [columns |-> cols,
     rows    |-> [i \in 1..Len(df.rows) |-> [c \in Range(cols) |-> df.rows[i][c]]]]

\* DataFrame.drop_duplicates(): keeps the first occurrence of every row, in
\* order; NaN equals NaN here.
RECURSIVE DedupRows(_, _)
DedupRows(rows, seen) ==
    IF rows = <<>> THEN <<>>
    ELSE IF Head(rows) \in seen THEN DedupRows(Tail(rows), seen)
    ELSE <<Head(rows)>> \o DedupRows(Tail(rows), seen \cup {Head(rows)})

\* Variant: the duplicates are kept.
KeepDuplicates(df) == df

DropDuplicates(df) == [columns |-> df.columns, rows |-> DedupRows(df.rows, {})]

\* Variant: the keys are numbered from the last row to the first.
InsertKeyDescending(df, key) ==
    [columns |-> <<key>> \o df.columns,
     rows    |-> [i \in 1..Len(df.rows) |->
                    [c \in Range(df.columns) \cup {key} |->
                        IF c = key THEN Some(Len(df.rows) + 1 - i) ELSE df.rows[i][c]]]]

\* df.insert(0, key, range(1, len(df) + 1))
InsertKey(df, key) ==
    [columns |-> <<key>> \o df.columns,
     rows    |-> [i \in 1..Len(df.rows) |->
                    [c \in Range(df.columns) \cup {key} |->
                        IF c = key THEN Some(i) ELSE df.rows[i][c]]]]

\* Variant: SQL join semantics, where a NULL key matches nothing.
KeysMatchSql(l, r, on) == \A i \in 1..Len(on) : ~IsNull(l[on[i]]) /\ l[on[i]] = r[on[i]]

\* Whether two rows agree on the join keys; pandas matches NaN with NaN.
KeysMatch(l, r, on) == \A i \in 1..Len(on) : l[on[i]] = r[on[i]]

\* The rows one left row yields in a left join: one per matching right row, or
\* one with NaN in the right-only columns when nothing matches.
RECURSIVE MatchRows(_, _, _, _, _)
MatchRows(l, rrows, on, cols, extra) ==
    IF rrows = <<>> THEN <<>>
    ELSE (IF KeysMatch(l, Head(rrows), on)
          THEN <<[c \in cols |-> IF c \in extra THEN Head(rrows)[c] ELSE l[c]]>>
          ELSE <<>>) \o MatchRows(l, Tail(rrows), on, cols, extra)

RECURSIVE MergeRows(_, _, _, _, _)
MergeRows(lrows, rrows, on, cols, extra) ==
    IF lrows = <<>> THEN <<>>
    ELSE LET l == Head(lrows)
             m == MatchRows(l, rrows, on, cols, extra)
         IN  (IF m = <<>>
              THEN <<[c \in cols |-> IF c \in extra THEN Null ELSE l[c]]>>
              ELSE m) \o MergeRows(Tail(lrows), rrows, on, cols, extra)

\* left.merge(right, on=on, how="left"), for a right frame whose columns are
\* the join keys and columns the left frame lacks.
Merge(left, right, on) ==
    LET rightOnly == SelectSeq(right.columns, LAMBDA c : ~Contains(on, c))
        columns   == left.columns \o rightOnly
    IN  [columns |-> columns,
         rows    |-> MergeRows(left.rows, right.rows, on, Range(columns), Range(rightOnly))]

\* Series.isna().any()
AnyNa(df, c) == \E i \in 1..Len(df.rows) : IsNull(df.rows[i][c])

-----------------------------------------------------------------------------
(* Dimension builders *)

DemoCols == <<"age_group", "sex", "children">>
RiskCols == <<"smoker", "smoker_flag", "bmi_category">>
OptionalFeatures == <<"age", "bmi", "children">>

\* The result of a call: a value, or the exception it raised.
Return(v) == [raised |-> "none", value |-> v]
Raise(e)  == [raised |-> e, value |-> NoFrame]

\* Python names refer to objects, and insert() changes the object it is
\* called on.  The frames of a dimension build are kept as a sequence: the
\* first is the argument, the frame the caller calls analytic_df; then the
\* frames the build creates.

\* Variant: the build numbers the rows of the frame it was given.
ArgumentFrame(frames) == 1

\* analytic_df[cols].drop_duplicates().copy() is a frame of its own: the
\* name demo_df (region_df, risk_df) refers to the newest frame.
CopiedFrame(frames) == Len(frames)

\* The body of a dimension build (lines 201-205): the distinct rows of the
\* dimension columns are a new frame, the key column is inserted in place in
\* the frame the build's name refers to, and that frame is returned.  source
\* is the caller's frame when the build returns.
BuildDimension(df, cols, key) ==
    LET frames == <<df, DropDuplicates(SelectCols(df, cols))>>
        dim    == CopiedFrame(frames)
        after  == [frames EXCEPT ![dim] = InsertKey(@, key)]
    IN  [raised |-> "none", value |-> after[dim], source |-> after[1]]

\* A build that raises before it creates a frame.
RaiseIn(e, df) == [raised |-> e, value |-> NoFrame, source |-> df]

\* [c for c in names if c in df.columns]
PresentCols(names, df) == SelectSeq(names, LAMBDA c : HasCol(df, c))

build_dim_demographics(df) ==
    LET cols == PresentCols(DemoCols, df)
    IN  IF cols = <<>> THEN RaiseIn("ValueError", df)
        ELSE BuildDimension(df, cols, "demographics_key")

build_dim_region(df) ==
    IF ~HasCol(df, "region") THEN RaiseIn("ValueError", df)
    ELSE BuildDimension(df, <<"region">>, "region_key")

build_dim_risk(df) ==
    LET cols == PresentCols(RiskCols, df)
    IN  IF cols = <<>> THEN RaiseIn("ValueError", df)
        ELSE BuildDimension(df, cols, "risk_key")

-----------------------------------------------------------------------------
(* The SQLite store: the tables of create_schema *)

TableOrder == <<"dim_demographics", "dim_region", "dim_risk", "fact_insurance_charges">>
TableNames == Range(TableOrder)

Schema(t) ==
    CASE t = "dim_demographics" -> <<"demographics_key", "age_group", "sex", "children">>
      [] t = "dim_region"       -> <<"region_key", "region">>
      [] t = "dim_risk"         -> <<"risk_key", "smoker", "smoker_flag", "bmi_category">>
      [] t = "fact_insurance_charges" ->
            <<"fact_key", "demographics_key", "region_key", "risk_key",
              "charges", "age", "bmi", "children">>

PrimaryKey(t) == Schema(t)[1]

NotNull(t) ==
    CASE t = "dim_region" -> {"region"}
      [] t = "fact_insurance_charges" ->
            {"demographics_key", "region_key", "risk_key", "charges"}
      [] OTHER -> {}

\* A database file sqlite3.connect has just created: no table yet.
EmptyStore == [exists |-> {}, rows |-> [t \in TableNames |-> <<>>]]

\* Result of a statement: the store after it and the exception it raised.
Done(store)      == [raised |-> "none", store |-> store]
Failed(e, store) == [raised |-> e, store |-> store]

\* rowid SQLite gives a row inserted with no INTEGER PRIMARY KEY value
NextRowId(rows, pk) ==
    IF rows = <<>> THEN 1
    ELSE 1 + (CHOOSE m \in {rows[i][pk][1] : i \in 1..Len(rows)} :
                \A i \in 1..Len(rows) : rows[i][pk][1] <= m)

\* One INSERT INTO t (cols) VALUES (...): unnamed columns are NULL, a NULL
\* primary key is assigned the next rowid, then NOT NULL and PRIMARY KEY are
\* enforced.  Foreign keys are not enforced (no PRAGMA foreign_keys).
InsertRow(store, t, cols, row) ==
    LET pk   == PrimaryKey(t)
        old  == store.rows[t]
        raw  == [c \in Range(Schema(t)) |-> IF Contains(cols, c) THEN row[c] ELSE Null]
        new  == IF IsNull(raw[pk])
                THEN [raw EXCEPT ![pk] = Some(NextRowId(old, pk))]
                ELSE raw
    IN  IF \E c \in NotNull(t) : IsNull(new[c])
        THEN Failed("IntegrityError", store)
        ELSE IF \E i \in 1..Len(old) : old[i][pk] = new[pk]
        THEN Failed("IntegrityError", store)
        ELSE Done([store EXCEPT !.rows[t] = Append(old, new)])

\* cursor.executemany("INSERT INTO t (cols) VALUES (?, ...)", df.itertuples()):
\* row by row, stopping at the first row that fails.
RECURSIVE InsertRows(_, _, _, _)
InsertRows(store, t, cols, rows) ==
    IF rows = <<>> THEN Done(store)
    ELSE LET r == InsertRow(store, t, cols, Head(rows))
         IN  IF r.raised # "none" THEN r
             ELSE InsertRows(r.store, t, cols, Tail(rows))

ExecuteManyInsert(store, t, df) ==
    IF t \notin store.exists \/ \E c \in Range(df.columns) : ~Contains(Schema(t), c)
    THEN Failed("OperationalError", store)
    ELSE InsertRows(store, t, df.columns, df.rows)

\* insert_dim_table(df, cursor, table_name)
insert_dim_table(df, store, t) == ExecuteManyInsert(store, t, df)

-----------------------------------------------------------------------------
(* build_and_insert_fact *)

\* [c for c in keys if c in fact.columns and c in dim.columns]
JoinKeys(keys, fact, dim) == SelectSeq(keys, LAMBDA c : HasCol(fact, c) /\ HasCol(dim, c))

WarnDemographics == "Warning: some rows have no matching demographics_key."
WarnRegion       == "Warning: some rows have no matching region_key."
WarnRisk         == "Warning: some rows have no matching risk_key."

\* The frame after the three left joins (lines 286-320); merge raises
\* MergeError when there is no column to join on.
JoinDimensions(df, demo_df, region_df, risk_df) ==
    LET demo_keys == JoinKeys(DemoCols, df, demo_df)
        risk_keys == JoinKeys(RiskCols, df, risk_df)
    IN  IF demo_keys = <<>> THEN Raise("MergeError")
        ELSE LET f1 == Merge(df, demo_df, demo_keys)
                 f2 == IF HasCol(f1, "region") /\ HasCol(region_df, "region")
                       THEN Merge(f1, region_df, <<"region">>)
                       ELSE f1
             IN  IF risk_keys = <<>> THEN Raise("MergeError")
                 ELSE Return(Merge(f2, risk_df, risk_keys))

\* The data quality checks (lines 322-328): the warnings printed.
QualityWarnings(fact) ==
    (IF AnyNa(fact, "demographics_key") THEN {WarnDemographics} ELSE {})
    \cup (IF HasCol(fact, "region_key") /\ AnyNa(fact, "region_key") THEN {WarnRegion} ELSE {})
    \cup (IF AnyNa(fact, "risk_key") THEN {WarnRisk} ELSE {})

\* Variant: charges is selected only when present, like the optional columns.
FactColsPresent(fact) ==
    <<"demographics_key", "region_key", "risk_key">>
    \o PresentCols(<<"charges">> \o OptionalFeatures, fact)

\* fact_cols (lines 330-342)
FactCols(fact) ==
    <<"demographics_key", "region_key", "risk_key", "charges">>
    \o PresentCols(OptionalFeatures, fact)

\* build_and_insert_fact(analytic_df, demo_df, region_df, risk_df, cursor):
\* the exception raised, the store after it, the frame inserted and the
\* warnings printed.
build_and_insert_fact(df, demo_df, region_df, risk_df, store) ==
    LET joined == JoinDimensions(df, demo_df, region_df, risk_df)
        fact   == joined.value
        stop(e, w) == [raised |-> e, store |-> store, fact_df |-> NoFrame, out |-> w]
    IN  IF joined.raised # "none" THEN stop(joined.raised, {})
        ELSE IF ~HasCol(fact, "demographics_key") \/ ~HasCol(fact, "risk_key")
        THEN stop("KeyError", {})
        ELSE IF \E i \in 1..Len(FactCols(fact)) : ~HasCol(fact, FactCols(fact)[i])
        THEN stop("KeyError", QualityWarnings(fact))
        ELSE LET frame == SelectCols(fact, FactCols(fact))
                 ins   == ExecuteManyInsert(store, "fact_insurance_charges", frame)
             IN  [raised |-> ins.raised, store |-> ins.store, fact_df |-> frame,
                  out |-> QualityWarnings(fact)]

-----------------------------------------------------------------------------
(* The prepared CSV files the runs are checked on *)

CsvColumns == <<"age", "sex", "bmi", "children", "smoker", "region", "charges",
                "age_group", "bmi_category", "smoker_flag">>

SourceRow(age, sex, bmi, children, smoker, region, charges, age_group, bmi_category, smoker_flag) ==
    [age |-> age, sex |-> sex, bmi |-> bmi, children |-> children, smoker |-> smoker,
     region |-> region, charges |-> charges, age_group |-> age_group,
     bmi_category |-> bmi_category, smoker_flag |-> smoker_flag]

\* Two rows sharing a demographic profile, a third profile, and rows with a
\* missing value in a join key, in region and in charges.
SampleRows ==
    { SourceRow(<<25>>, <<"female">>, <<31>>, <<0>>, <<"yes">>, <<"east">>, <<100>>,
                <<"young">>, <<"obese">>, <<1>>),
      SourceRow(<<25>>, <<"female">>, <<22>>, <<0>>, <<"no">>, <<"west">>, <<300>>,
                <<"young">>, <<"normal">>, <<0>>),
      SourceRow(<<60>>, <<"male">>, <<22>>, <<2>>, <<"no">>, <<"east">>, <<50>>,
                <<"old">>, <<"normal">>, <<0>>),
      SourceRow(Null, <<"female">>, <<31>>, <<0>>, <<"yes">>, <<"east">>, <<100>>,
                Null, <<"obese">>, <<1>>),
      SourceRow(<<60>>, <<"male">>, <<22>>, <<2>>, <<"no">>, Null, <<50>>,
                <<"old">>, <<"normal">>, <<0>>),
      SourceRow(<<25>>, <<"female">>, <<31>>, <<0>>, <<"yes">>, <<"west">>, Null,
                <<"young">>, <<"obese">>, <<1>>) }

\* The column groups a file may lack.
DroppedColumns ==
    { {}, {"children"}, {"age", "bmi"}, {"region"}, {"charges"},
      {"age_group", "sex", "children"}, {"smoker", "smoker_flag", "bmi_category"} }

WithoutColumns(df, d) ==
    SelectCols(df, SelectSeq(df.columns, LAMBDA c : c \notin d))

Frames ==
    { WithoutColumns([columns |-> CsvColumns, rows |-> rows], d) :
        rows \in SeqsUpTo(SampleRows, MaxRows), d \in DroppedColumns }

NoFile == [exists |-> FALSE, columns |-> <<>>, rows |-> <<>>]
File(df) == [exists |-> TRUE, columns |-> df.columns, rows |-> df.rows]
Frame(f) == [columns |-> f.columns, rows |-> f.rows]

-----------------------------------------------------------------------------
(* load_data_to_db, one action per call it makes *)

\* The committed store and the source it was built from.
Snapshot(store, source) == [exists |-> store.exists, rows |-> store.rows, source |-> source]

\* sqlite3.connect(DB_PATH); conn.cursor()
Connect ==
    /\ pc \in {"idle", "done"}
    /\ pc' = "create_schema"
    /\ txn' = committed
    /\ before' = Snapshot(committed, builtFrom)
    /\ err' = "none"
    /\ out' = {}
    /\ stmts' = <<>>
    /\ analytic_df' = NoFrame
    /\ dim_demo_df' = NoFrame
    /\ dim_region_df' = NoFrame
    /\ dim_risk_df' = NoFrame
    /\ fact_df' = NoFrame
    /\ UNCHANGED <<csv, committed, builtFrom, cubeVars>>

\* An exception leaves the try block for the finally clause.
Abort(e) ==
    /\ err' = e
    /\ pc' = "close"

\* create_schema: four CREATE TABLE IF NOT EXISTS.  No transaction is open, so
\* each takes effect in the file at once; the statement after the first k may
\* fail (sqlite3.OperationalError).
CreateSchema ==
    /\ pc = "create_schema"
    /\ \E k \in 0..Len(TableOrder) :
        LET made == {TableOrder[i] : i \in 1..k}
        IN  /\ committed' = [committed EXCEPT !.exists = @ \cup made]
            /\ txn' = [txn EXCEPT !.exists = @ \cup made]
            /\ IF k = Len(TableOrder)
               THEN pc' = "delete_existing_records" /\ err' = err
               ELSE Abort("OperationalError")
    /\ UNCHANGED <<csv, out, stmts, analytic_df, dim_demo_df, dim_region_df,
                   dim_risk_df, fact_df, before, builtFrom, cubeVars>>

\* Variant: the fact table is not cleared.
DeleteOrderDimsOnly == <<"dim_risk", "dim_region", "dim_demographics">>

\* Variant: the dimension tables are cleared before the fact table.
DeleteOrderDimsFirst == <<"dim_risk", "dim_region", "dim_demographics", "fact_insurance_charges">>

\* The tables in the order delete_existing_records clears them.
DeleteOrder == <<"fact_insurance_charges", "dim_risk", "dim_region", "dim_demographics">>

\* delete_existing_records: the first DELETE opens the transaction; the
\* statement after the first k may fail.
DeleteExistingRecords ==
    /\ pc = "delete_existing_records"
    /\ \E k \in 0..Len(DeleteOrder) :
        LET cleared == {DeleteOrder[i] : i \in 1..k}
        IN  /\ txn' = [txn EXCEPT !.rows =
                        [t \in TableNames |-> IF t \in cleared THEN <<>> ELSE @[t]]]
            /\ stmts' = stmts \o [i \in 1..k |-> <<"DELETE", DeleteOrder[i]>>]
            /\ IF k = Len(DeleteOrder)
               THEN pc' = "load_analytic_dataset" /\ err' = err
               ELSE Abort("OperationalError")
    /\ UNCHANGED <<csv, committed, out, analytic_df, dim_demo_df, dim_region_df,
                   dim_risk_df, fact_df, before, builtFrom, cubeVars>>

\* load_analytic_dataset: pd.read_csv of the prepared file
LoadAnalyticDataset ==
    /\ pc = "load_analytic_dataset"
    /\ IF csv.exists
       THEN analytic_df' = Frame(csv) /\ pc' = "build_dim_demographics" /\ err' = err
       ELSE analytic_df' = analytic_df /\ Abort("FileNotFoundError")
    /\ UNCHANGED <<csv, committed, txn, out, stmts, dim_demo_df, dim_region_df,
                   dim_risk_df, fact_df, before, builtFrom, cubeVars>>

BuildDimDemographics ==
    /\ pc = "build_dim_demographics"
    /\ LET r == build_dim_demographics(analytic_df)
       IN  /\ dim_demo_df' = r.value
           /\ analytic_df' = r.source
           /\ IF r.raised = "none"
              THEN pc' = "build_dim_region" /\ err' = err
              ELSE Abort(r.raised)
    /\ UNCHANGED <<csv, committed, txn, out, stmts, dim_region_df, dim_risk_df, fact_df,
                   before, builtFrom, cubeVars>>

BuildDimRegion ==
    /\ pc = "build_dim_region"
    /\ LET r == build_dim_region(analytic_df)
       IN  /\ dim_region_df' = r.value
           /\ analytic_df' = r.source
           /\ IF r.raised = "none"
              THEN pc' = "build_dim_risk" /\ err' = err
              ELSE Abort(r.raised)
    /\ UNCHANGED <<csv, committed, txn, out, stmts, dim_demo_df, dim_risk_df, fact_df,
                   before, builtFrom, cubeVars>>

BuildDimRisk ==
    /\ pc = "build_dim_risk"
    /\ LET r == build_dim_risk(analytic_df)
       IN  /\ dim_risk_df' = r.value
           /\ analytic_df' = r.source
           /\ IF r.raised = "none"
              THEN pc' = "insert_dim_demographics" /\ err' = err
              ELSE Abort(r.raised)
    /\ UNCHANGED <<csv, committed, txn, out, stmts, dim_demo_df, dim_region_df, fact_df,
                   before, builtFrom, cubeVars>>

\* One insert_dim_table call of load_data_to_db (lines 400-402); the
\* statement may also fail in the engine (sqlite3.OperationalError).
InsertDim(at, df, t, next) ==
    /\ pc = at
    /\ \/ LET r == insert_dim_table(df, txn, t)
          IN  /\ txn' = r.store
              /\ stmts' = Append(stmts, <<"INSERT", t>>)
              /\ IF r.raised = "none"
                 THEN pc' = next /\ err' = err
                 ELSE Abort(r.raised)
       \/ /\ Abort("OperationalError")
          /\ UNCHANGED <<txn, stmts>>
    /\ UNCHANGED <<csv, committed, out, analytic_df, dim_demo_df, dim_region_df,
                   dim_risk_df, fact_df, before, builtFrom, cubeVars>>

InsertDimDemographics ==
    InsertDim("insert_dim_demographics", dim_demo_df, "dim_demographics", "insert_dim_region")

InsertDimRegion ==
    InsertDim("insert_dim_region", dim_region_df, "dim_region", "insert_dim_risk")

InsertDimRisk ==
    InsertDim("insert_dim_risk", dim_risk_df, "dim_risk", "build_and_insert_fact")

BuildAndInsertFact ==
    /\ pc = "build_and_insert_fact"
    /\ LET r == build_and_insert_fact(analytic_df, dim_demo_df, dim_region_df,
                                      dim_risk_df, txn)
       IN  /\ txn' = r.store
           /\ fact_df' = r.fact_df
           /\ out' = out \cup r.out
           /\ stmts' = IF r.fact_df = NoFrame THEN stmts
                       ELSE Append(stmts, <<"INSERT", "fact_insurance_charges">>)
           /\ IF r.raised = "none"
              THEN pc' = "commit" /\ err' = err
              ELSE Abort(r.raised)
    /\ UNCHANGED <<csv, committed, analytic_df, dim_demo_df, dim_region_df,
                   dim_risk_df, before, builtFrom, cubeVars>>

\* conn.commit(): the transaction becomes the content of the file, or the
\* commit fails (sqlite3.OperationalError) and nothing is written.
Commit ==
    /\ pc = "commit"
    /\ \/ /\ committed' = txn
          /\ builtFrom' = File(analytic_df)
          /\ pc' = "close"
          /\ err' = err
       \/ /\ Abort("OperationalError")
          /\ UNCHANGED <<committed, builtFrom>>
    /\ UNCHANGED <<csv, txn, out, stmts, analytic_df, dim_demo_df, dim_region_df,
                   dim_risk_df, fact_df, before, cubeVars>>

\* Variant: closing the connection commits the open transaction.
CloseCommitting ==
    /\ pc = "close"
    /\ pc' = "done"
    /\ committed' = txn
    /\ UNCHANGED <<csv, txn, err, out, stmts, analytic_df, dim_demo_df,
                   dim_region_df, dim_risk_df, fact_df, before, builtFrom, cubeVars>>

\* finally: conn.close() discards whatever the connection has not committed.
Close ==
    /\ pc = "close"
    /\ pc' = "done"
    /\ txn' = committed
    /\ UNCHANGED <<csv, committed, err, out, stmts, analytic_df, dim_demo_df,
                   dim_region_df, dim_risk_df, fact_df, before, builtFrom, cubeVars>>

\* Between two runs the preparation stage may rewrite the file: remove it,
\* write it without some columns, or write it with no data row.
RewriteCsv ==
    /\ pc \in {"idle", "done"}
    /\ csv.exists
    /\ \/ csv' = NoFile
       \/ /\ csv.rows # <<>>
          /\ csv' = [csv EXCEPT !.rows = <<>>]
       \/ /\ csv.columns = CsvColumns
          /\ \E d \in DroppedColumns \ {{}} : csv' = File(WithoutColumns(Frame(csv), d))
    /\ UNCHANGED <<committed, txn, pc, err, out, stmts, analytic_df, dim_demo_df,
                   dim_region_df, dim_risk_df, fact_df, before, builtFrom, cubeVars>>

Init ==
    /\ csv \in {File(df) : df \in Frames} \cup {NoFile}
    /\ committed = EmptyStore
    /\ txn = EmptyStore
    /\ pc = "idle"
    /\ err = "none"
    /\ out = {}
    /\ stmts = <<>>
    /\ analytic_df = NoFrame
    /\ dim_demo_df = NoFrame
    /\ dim_region_df = NoFrame
    /\ dim_risk_df = NoFrame
    /\ fact_df = NoFrame
    /\ before = Snapshot(EmptyStore, NoFile)
    /\ builtFrom = NoFile
    /\ data_df = NoFrame
    /\ dimensions = <<>>
    /\ metrics = <<>>
    /\ cube = NoFrame

Next ==
    \/ Connect
    \/ CreateSchema
    \/ DeleteExistingRecords
    \/ LoadAnalyticDataset
    \/ BuildDimDemographics
    \/ BuildDimRegion
    \/ BuildDimRisk
    \/ InsertDimDemographics
    \/ InsertDimRegion
    \/ InsertDimRisk
    \/ BuildAndInsertFact
    \/ Commit
    \/ Close
    \/ RewriteCsv

Spec == Init /\ [][Next]_vars

-----------------------------------------------------------------------------
(* Properties of the star-schema build *)

KeyColumns == <<"demographics_key", "region_key", "risk_key">>

DimTable(key) ==
    CASE key = "demographics_key" -> "dim_demographics"
      [] key = "region_key"       -> "dim_region"
      [] key = "risk_key"         -> "dim_risk"

DimFrame(key) ==
    CASE key = "demographics_key" -> dim_demo_df
      [] key = "region_key"       -> dim_region_df
      [] key = "risk_key"         -> dim_risk_df

\* v is not null and is the key of exactly one of the rows
ResolvesIn(v, key, rows) ==
    /\ ~IsNull(v)
    /\ Cardinality({j \in 1..Len(rows) : rows[j][key] = v}) = 1

FrameKeysResolve ==
    \A i \in 1..Len(fact_df.rows) : \A k \in 1..Len(KeyColumns) :
        ResolvesIn(fact_df.rows[i][KeyColumns[k]], KeyColumns[k], DimFrame(KeyColumns[k]).rows)

StoreKeysResolve(store) ==
    \A i \in 1..Len(store.rows["fact_insurance_charges"]) : \A k \in 1..Len(KeyColumns) :
        ResolvesIn(store.rows["fact_insurance_charges"][i][KeyColumns[k]], KeyColumns[k],
                   store.rows[DimTable(KeyColumns[k])])

\* C1: in a build whose dimension tables and fact table come from the same
\* source table, every foreign key of every fact row (of the frame the fact
\* build produced, and of the rows in the store) is non-null and is the
\* surrogate key of exactly one row of its dimension table.
C1_ReferentialIntegrity ==
    /\ fact_df # NoFrame => FrameKeysResolve
    /\ StoreKeysResolve(txn)
    /\ StoreKeysResolve(committed)

\* A committed build of two fact rows that share one demographics row and
\* reference two region rows.
C1_Witness ==
    /\ pc = "done" /\ err = "none"
    /\ Len(fact_df.rows) = 2
    /\ fact_df.rows[1]["demographics_key"] = fact_df.rows[2]["demographics_key"]
    /\ fact_df.rows[1]["region_key"] # fact_df.rows[2]["region_key"]
    /\ Len(committed.rows["fact_insurance_charges"]) = 2

\* The attribute tuples of a dimension frame, in row order.
Attributes(dim) ==
    [i \in 1..Len(dim.rows) |-> [c \in Range(Tail(dim.columns)) |-> dim.rows[i][c]]]

\* The dimension frame holds every attribute tuple of the source once.
ExactlyOnce(dim, names) ==
    LET cols  == PresentCols(names, analytic_df)
        attrs == Attributes(dim)
    IN  /\ Tail(dim.columns) = cols
        /\ \A i, j \in 1..Len(attrs) : attrs[i] = attrs[j] => i = j
        /\ Range(attrs) = Range(SelectCols(analytic_df, cols).rows)

\* C2: the dimension table a build function returns holds each distinct
\* attribute tuple of the source exactly once: no two of its rows share a
\* tuple and no tuple of the source is missing.
C2_DimensionTuplesOnce ==
    /\ dim_demo_df # NoFrame => ExactlyOnce(dim_demo_df, DemoCols)
    /\ dim_region_df # NoFrame => ExactlyOnce(dim_region_df, <<"region">>)
    /\ dim_risk_df # NoFrame => ExactlyOnce(dim_risk_df, RiskCols)

\* Two source rows with one demographic profile and two regions.
C2_Witness ==
    /\ Len(analytic_df.rows) = 2
    /\ dim_risk_df # NoFrame
    /\ Len(dim_demo_df.rows) = 1
    /\ Len(dim_region_df.rows) = 2

\* Every dimension row of the store is referenced by some fact row.
NoOrphanDimension(store) ==
    \A k \in 1..Len(KeyColumns) :
        \A j \in 1..Len(store.rows[DimTable(KeyColumns[k])]) :
            \E i \in 1..Len(store.rows["fact_insurance_charges"]) :
                store.rows["fact_insurance_charges"][i][KeyColumns[k]]
                    = store.rows[DimTable(KeyColumns[k])][j][KeyColumns[k]]

\* C3: a rebuild is atomic.  The content of the store is the rows of its four
\* tables (a table not yet created has none).  A run that failed, at whatever
\* step, leaves the committed rows as they were when it connected; the
\* committed rows change only by the commit of a run that raised nothing; and
\* every committed state holds its dimension rows together with the fact rows
\* of the same build: each fact key resolves and each dimension row is used.
C3_AtomicRebuild ==
    /\ (pc = "done" /\ err # "none") => committed.rows = before.rows
    /\ committed.rows # before.rows => (pc \in {"close", "done"} /\ err = "none")
    /\ StoreKeysResolve(committed)
    /\ NoOrphanDimension(committed)

\* A run over a populated store that failed after it had cleared the tables
\* and inserted new dimension rows.
C3_Witness ==
    /\ pc = "done" /\ err = "OperationalError"
    /\ Len(before.rows["fact_insurance_charges"]) = 2
    /\ Len(stmts) > Len(DeleteOrder)
    /\ committed.rows = before.rows

\* C4: a run on the source the store was last built from commits the same
\* dimension and fact rows, in the same number, as were there before it.
C4_IdempotentRebuild ==
    (pc \in {"close", "done"} /\ err = "none" /\ before.source = builtFrom)
        => committed.rows = before.rows

\* The second of two committed runs on one file of two rows.
C4_Witness ==
    /\ pc = "done" /\ err = "none"
    /\ before.source = builtFrom
    /\ Len(before.rows["fact_insurance_charges"]) = 2
    /\ Len(committed.rows["fact_insurance_charges"]) = 2
    /\ Len(committed.rows["dim_region"]) = 2

NoGrouping(df) ==
    \/ PresentCols(DemoCols, df) = <<>>
    \/ ~HasCol(df, "region")
    \/ PresentCols(RiskCols, df) = <<>>

\* C6: a run whose source lacks every column of a dimension grouping, or the
\* charges column, fails and commits nothing.  The error is the ValueError of
\* the dimension build, raised before any insert, or the KeyError of the fact
\* projection, unless an insert of a dimension table failed before the fact
\* build was reached.
C6_MissingColumnAborts ==
    (pc \in {"close", "done"} /\ analytic_df # NoFrame
        /\ (NoGrouping(analytic_df) \/ ~HasCol(analytic_df, "charges")))
    => /\ err # "none"
       /\ committed.rows = before.rows
       /\ NoGrouping(analytic_df) => (err = "ValueError" /\ Len(stmts) = Len(DeleteOrder))
       /\ ~NoGrouping(analytic_df) =>
            \/ err = "KeyError" /\ Len(stmts) = Len(DeleteOrder) + 3
            \/ err \in {"IntegrityError", "OperationalError"} /\ fact_df = NoFrame

\* A run over a populated store whose source has lost the charges column: the
\* fact projection fails after the new dimension rows were inserted.
C6_Witness ==
    /\ pc = "done" /\ err = "KeyError"
    /\ ~HasCol(analytic_df, "charges")
    /\ Len(before.rows["fact_insurance_charges"]) = 2
    /\ committed.rows = before.rows

-----------------------------------------------------------------------------
(* The fact build against dimension tables built from other data *)

\* The store after create_schema and delete_existing_records.
ClearedStore == [exists |-> TableNames, rows |-> [t \in TableNames |-> <<>>]]

\* The three insert_dim_table calls, for dimension frames whose rows the
\* tables accept.
InsertDimensions(store, demo_df, region_df, risk_df) ==
    LET a == insert_dim_table(demo_df, store, "dim_demographics")
        b == insert_dim_table(region_df, a.store, "dim_region")
    IN  insert_dim_table(risk_df, b.store, "dim_risk")

DimensionsInsertable(df) ==
    /\ ~NoGrouping(df)
    /\ ~AnyNa(df, "region")

\* build_and_insert_fact is about to be called on a source table, with the
\* dimension frames built from another table and already inserted.
InitFact ==
    \E df \in {f \in Frames : f.columns = CsvColumns},
       other \in {f \in Frames : DimensionsInsertable(f)} :
        /\ analytic_df = df
        /\ dim_demo_df = build_dim_demographics(other).value
        /\ dim_region_df = build_dim_region(other).value
        /\ dim_risk_df = build_dim_risk(other).value
        /\ txn = InsertDimensions(ClearedStore, dim_demo_df, dim_region_df, dim_risk_df).store
        /\ csv = File(other)
        /\ committed = ClearedStore
        /\ before = Snapshot(ClearedStore, NoFile)
        /\ builtFrom = NoFile
        /\ pc = "build_and_insert_fact"
        /\ err = "none"
        /\ out = {}
        /\ stmts = <<>>
        /\ fact_df = NoFrame
        /\ data_df = NoFrame
        /\ dimensions = <<>>
        /\ metrics = <<>>
        /\ cube = NoFrame

NextFact ==
    \/ BuildAndInsertFact
    \/ Commit
    \/ Close

SpecFact == InitFact /\ [][NextFact]_vars

\* Some row of the frame the fact build produced has no dimension key.
Unmatched == fact_df # NoFrame /\ \E k \in 1..Len(KeyColumns) : AnyNa(fact_df, KeyColumns[k])

FactRowsOf(store) == store.rows["fact_insurance_charges"]

\* C5: when a source row matches no row of a dimension table, the fact build
\* prints a warning, does not abort, and the row is in the fact table with a
\* null key.
C5_NullKeyRowInserted ==
    Unmatched =>
        /\ out # {}
        /\ err = "none"
        /\ \E i \in 1..Len(FactRowsOf(txn)) : \E k \in 1..Len(KeyColumns) :
                IsNull(FactRowsOf(txn)[i][KeyColumns[k]])

\* C7: a run on a source with the declared columns and no row, which the
\* database engine does not fail, raises nothing, commits empty dimension and
\* fact tables, and prints a warning about the empty input.
C7_EmptySourceWarns ==
    (pc = "done" /\ analytic_df # NoFrame /\ analytic_df.rows = <<>>
        /\ ~NoGrouping(analytic_df) /\ HasCol(analytic_df, "charges")
        /\ err # "OperationalError")
    => /\ err = "none"
       /\ \A t \in TableNames : committed.rows[t] = <<>>
       /\ out # {}

-----------------------------------------------------------------------------
(* The cube aggregator (olap_insurance_cubing.py)                           *)
(*                                                                         *)
(* A column or function name is the sequence of its pieces: each piece is  *)
(* the underscore "_" or a run of other characters, so "age__group" is     *)
(* <<"age", "_", "_", "group">>.  A metrics dict is the sequence of its    *)
(* items in insertion order, each [column, list, funcs]: list tells a list *)
(* of function names from a single name given as a scalar.  The rows of a  *)
(* cube are tuples, one value per column.                                  *)

MaxCubeRows == 3

\* f"{column}_{func}"
Joined(column, func) == column \o <<"_">> \o func

\* The names one metrics item appends (lines 70-75).
ItemNames(item) ==
    IF item.list
    THEN [i \in 1..Len(item.funcs) |-> Joined(item.column, item.funcs[i])]
    ELSE <<Joined(item.column, item.funcs[1])>>

RECURSIVE MetricNames(_)
MetricNames(mets) ==
    IF mets = <<>> THEN <<>> ELSE ItemNames(Head(mets)) \o MetricNames(Tail(mets))

\* str.replace("__", "_"): left to right, without overlap
RECURSIVE ReplaceDouble(_)
ReplaceDouble(name) ==
    IF name = <<>> THEN <<>>
    ELSE IF Len(name) >= 2 /\ name[1] = "_" /\ name[2] = "_"
    THEN <<"_">> \o ReplaceDouble(SubSeq(name, 3, Len(name)))
    ELSE <<name[1]>> \o ReplaceDouble(Tail(name))

\* str.rstrip("_")
RECURSIVE RStrip(_)
RStrip(name) ==
    IF name # <<>> /\ name[Len(name)] = "_"
    THEN RStrip(SubSeq(name, 1, Len(name) - 1))
    ELSE name

\* col.replace("__", "_").rstrip("_") (line 78)
CleanName(name) == RStrip(ReplaceDouble(name))

generate_column_names(dims, mets) ==
    LET column_names == dims \o MetricNames(mets)
    IN  [i \in 1..Len(column_names) |-> CleanName(column_names[i])]

\* The order Python sorts the sample values in (groupby sorts its keys).
ValueOrder == <<"east", "no", "old", "west", "yes", "young">>
Rank(v) ==
    IF IsNull(v) THEN Len(ValueOrder) + 1
    ELSE CHOOSE i \in 1..Len(ValueOrder) : ValueOrder[i] = v[1]

\* Lexicographic order of two key tuples of equal length
RECURSIVE KeyLess(_, _)
KeyLess(a, b) ==
    /\ a # <<>>
    /\ \/ Rank(Head(a)) < Rank(Head(b))
       \/ Head(a) = Head(b) /\ KeyLess(Tail(a), Tail(b))

RECURSIVE SortKeys(_)
SortKeys(keys) ==
    IF keys = {} THEN <<>>
    ELSE LET least == CHOOSE k \in keys : \A other \in keys \ {k} : KeyLess(k, other)
         IN  <<least>> \o SortKeys(keys \ {least})

\* Variant: the groups are formed on the first grouping column alone.
KeyOfFirst(row, dims) == [i \in 1..Len(dims) |-> row[dims[1]]]

\* The values of a row in the grouping columns
KeyOf(row, dims) == [i \in 1..Len(dims) |-> row[dims[i]]]

\* Variant: rows with a missing key form groups of their own (dropna=False);
\* a missing value sorts last.
GroupedRowsKeepNa(df, dims) == {i \in 1..Len(df.rows) : TRUE}

\* groupby(dimensions, dropna=True): the rows that fall in some group
GroupedRows(df, dims) ==
    {i \in 1..Len(df.rows) : \A d \in 1..Len(dims) : ~IsNull(df.rows[i][dims[d]])}

RECURSIVE SumOf(_)
SumOf(vals) == IF vals = <<>> THEN 0 ELSE Head(vals)[1] + SumOf(Tail(vals))

Least(vals) == CHOOSE m \in Range(vals) : \A v \in Range(vals) : m[1] <= v[1]
Greatest(vals) == CHOOSE m \in Range(vals) : \A v \in Range(vals) : m[1] >= v[1]

\* One aggregation function on the values of a measure column in a group;
\* missing values are skipped.  A mean is kept as <<sum, count>>.
Aggregate(func, values) ==
    LET vals == SelectSeq(values, LAMBDA v : ~IsNull(v))
    IN  CASE func = <<"count">> -> Some(Len(vals))
          [] func = <<"sum">>   -> Some(SumOf(vals))
          [] func = <<"mean">>  -> IF vals = <<>> THEN Null ELSE Some(<<SumOf(vals), Len(vals)>>)
          [] func = <<"min">>   -> IF vals = <<>> THEN Null ELSE Least(vals)
          [] func = <<"max">>   -> IF vals = <<>> THEN Null ELSE Greatest(vals)

\* The (column, function) pairs of a metrics dict, in order
RECURSIVE MetricPairs(_)
MetricPairs(mets) ==
    IF mets = <<>> THEN <<>>
    ELSE [i \in 1..(IF Head(mets).list THEN Len(Head(mets).funcs) ELSE 1) |->
            [column |-> Head(mets).column, func |-> Head(mets).funcs[i]]]
         \o MetricPairs(Tail(mets))

\* grouped.agg(metrics).reset_index(): one row per group, in key order
AggregateRows(df, dims, mets) ==
    LET members == GroupedRows(df, dims)
        keys    == SortKeys({KeyOf(df.rows[i], dims) : i \in members})
        pairs   == MetricPairs(mets)
        group(k) == SelectSeq(df.rows, LAMBDA r : KeyOf(r, dims) = k)
    IN  [g \in 1..Len(keys) |->
            keys[g] \o [p \in 1..Len(pairs) |->
                Aggregate(pairs[p].func,
                          [j \in 1..Len(group(keys[g])) |-> group(keys[g])[j][pairs[p].column]])]]

WarnEmpty == "Input DataFrame is empty, cannot create cube."
ErrorKey  == "KeyError: One or more dimensions/metrics not found in the DataFrame"

CubeResult(e, frame, log) == [raised |-> e, cube |-> frame, out |-> log]

\* create_olap_cube(data_df, dimensions, metrics): the set of its possible
\* outcomes.  Aggregating a column that is also a grouping key depends on the
\* pandas version (it aggregates, or raises), so both outcomes are possible.
create_olap_cube(df, dims, mets) ==
    LET aggregated ==
            CubeResult("none",
                       [columns |-> generate_column_names(dims, mets),
                        rows    |-> AggregateRows(df, dims, mets)], {})
    IN  IF df.rows = <<>> \/ df.columns = <<>>
        THEN {CubeResult("none", NoFrame, {WarnEmpty})}
        ELSE IF dims = <<>>
        THEN {CubeResult("ValueError", NoFrame, {})}
        ELSE IF \E i \in 1..Len(dims) : ~HasCol(df, dims[i])
        THEN {CubeResult("KeyError", NoFrame, {ErrorKey})}
        ELSE IF \E i \in 1..Len(mets) : ~HasCol(df, mets[i].column)
        THEN {CubeResult("KeyError", NoFrame, {ErrorKey})}
        ELSE IF \E i \in 1..Len(mets) : Contains(dims, mets[i].column)
        THEN {aggregated, CubeResult("KeyError", NoFrame, {ErrorKey}),
              CubeResult("ValueError", NoFrame, {})}
        ELSE {aggregated}

-----------------------------------------------------------------------------
(* The tables and requests create_olap_cube is checked on *)

Region   == <<"region">>
Smoker   == <<"smoker">>
AgeGroup == <<"age", "_", "_", "group">>
Charges  == <<"charges">>
Bmi      == <<"bmi", "_">>
FactKey  == <<"fact", "_", "key">>
City     == <<"city">>

CubeColumns == <<Region, Smoker, AgeGroup, Charges, Bmi, FactKey>>

CubeRow(region, smoker, age_group, charges, bmi, fact_key) ==
    [c \in Range(CubeColumns) |->
        CASE c = Region   -> region
          [] c = Smoker   -> smoker
          [] c = AgeGroup -> age_group
          [] c = Charges  -> charges
          [] c = Bmi      -> bmi
          [] c = FactKey  -> fact_key]

\* Rows with and without a missing value in a dimension and in a measure.
CubeSampleRows ==
    { CubeRow(<<"east">>, <<"yes">>, <<"young">>, <<100>>, <<31>>, <<1>>),
      CubeRow(<<"east">>, <<"no">>, <<"old">>, <<300>>, Null, <<2>>),
      CubeRow(<<"west">>, <<"no">>, <<"young">>, <<50>>, <<22>>, <<3>>),
      CubeRow(Null, <<"yes">>, <<"old">>, <<100>>, <<31>>, <<4>>),
      CubeRow(<<"west">>, <<"yes">>, Null, Null, <<22>>, <<5>>) }

CubeTables ==
    {[columns |-> CubeColumns, rows |-> rows] : rows \in SeqsUpTo(CubeSampleRows, MaxCubeRows)}

DimensionLists ==
    { <<Region>>, <<Region, Smoker>>, <<AgeGroup>>, <<Smoker, AgeGroup>>, <<>>, <<Region, City>> }

Item(column, list, funcs) == [column |-> column, list |-> list, funcs |-> funcs]

MetricsDicts ==
    { <<Item(Charges, TRUE, <<(<<"sum">>), (<<"mean">>)>>), Item(FactKey, FALSE, <<(<<"count">>)>>)>>,
      <<Item(Charges, FALSE, <<(<<"count">>)>>)>>,
      <<Item(Bmi, TRUE, <<(<<"count">>), (<<"max">>)>>), Item(Charges, FALSE, <<(<<"min">>)>>)>>,
      <<Item(Charges, TRUE, <<(<<"sum">>)>>), Item(Region, FALSE, <<(<<"count">>)>>)>>,
      <<Item(City, TRUE, <<(<<"sum">>)>>)>> }

InitCube ==
    /\ data_df \in CubeTables
    /\ dimensions \in DimensionLists
    /\ metrics \in MetricsDicts
    /\ cube = NoFrame
    /\ pc = "create_olap_cube"
    /\ err = "none"
    /\ out = {}
    /\ csv = NoFile
    /\ committed = EmptyStore
    /\ txn = EmptyStore
    /\ stmts = <<>>
    /\ analytic_df = NoFrame
    /\ dim_demo_df = NoFrame
    /\ dim_region_df = NoFrame
    /\ dim_risk_df = NoFrame
    /\ fact_df = NoFrame
    /\ before = Snapshot(EmptyStore, NoFile)
    /\ builtFrom = NoFile

CreateOlapCube ==
    /\ pc = "create_olap_cube"
    /\ \E r \in create_olap_cube(data_df, dimensions, metrics) :
        /\ cube' = r.cube
        /\ err' = r.raised
        /\ out' = r.out
    /\ pc' = "done"
    /\ UNCHANGED <<csv, committed, txn, stmts, analytic_df, dim_demo_df, dim_region_df,
                   dim_risk_df, fact_df, before, builtFrom, data_df, dimensions, metrics>>

NextCube == CreateOlapCube

SpecCube == InitCube /\ [][NextCube]_vars

-----------------------------------------------------------------------------
(* Properties of the cube aggregator *)

\* The value create_olap_cube returned
Returned == pc = "done" /\ err = "none" /\ data_df # NoFrame

\* C8: the column names of the cube are the dimension names unchanged, then
\* measure_function for every (measure, function) pair in the order of the
\* metrics dict and of each function list, a scalar function giving one such
\* name (stated for the cubes a non-empty table yields; C10 is the empty one).
C8_ColumnNames ==
    (Returned /\ data_df.rows # <<>>) => cube.columns = dimensions \o MetricNames(metrics)

\* The part of C8 the code meets: the names are as C8 says whenever none of
\* them holds a double underscore or ends with an underscore.
C8_NamesWithoutCleanup ==
    (Returned /\ data_df.rows # <<>>
        /\ \A i \in 1..Len(dimensions \o MetricNames(metrics)) :
            CleanName((dimensions \o MetricNames(metrics))[i])
                = (dimensions \o MetricNames(metrics))[i])
    => cube.columns = dimensions \o MetricNames(metrics)

\* The positions of the count columns of the cube
CountColumns ==
    {Len(dimensions) + p : p \in {q \in 1..Len(MetricPairs(metrics)) :
                                    MetricPairs(metrics)[q].func = <<"count">>}}

\* The measure column the cube column at position p aggregates
MeasureAt(p) == MetricPairs(metrics)[p - Len(dimensions)].column

RECURSIVE SumColumn(_, _)
SumColumn(rows, p) == IF rows = <<>> THEN 0 ELSE Head(rows)[p][1] + SumColumn(Tail(rows), p)

\* The input rows with no missing value in a dimension column
NonNullDimensionRows ==
    {i \in 1..Len(data_df.rows) :
        \A d \in 1..Len(dimensions) : ~IsNull(data_df.rows[i][dimensions[d]])}

\* The cube rows an input row belongs to
CubeRowsOf(i) ==
    {g \in 1..Len(cube.rows) :
        SubSeq(cube.rows[g], 1, Len(dimensions)) = KeyOf(data_df.rows[i], dimensions)}

\* C9: for a non-empty table, the count column of the cube sums to the number
\* of input rows without a missing dimension value, and each such row belongs
\* to exactly one cube row.
C9_CountPartition ==
    (Returned /\ data_df.rows # <<>>) =>
        /\ \A p \in CountColumns :
                SumColumn(cube.rows, p) = Cardinality(NonNullDimensionRows)
        /\ \A i \in NonNullDimensionRows : Cardinality(CubeRowsOf(i)) = 1

\* C9 as amended: the count column sums to the number of input rows without
\* a missing value in any dimension column and in the counted measure column;
\* each row without a missing dimension value belongs to exactly one cube row.
C9_CountPartitionNonNull ==
    (Returned /\ data_df.rows # <<>>) =>
        /\ \A p \in CountColumns :
                SumColumn(cube.rows, p)
                    = Cardinality({i \in NonNullDimensionRows :
                                     ~IsNull(data_df.rows[i][MeasureAt(p)])})
        /\ \A i \in NonNullDimensionRows : Cardinality(CubeRowsOf(i)) = 1

\* A cube over a table with a row missing a dimension value and a row missing
\* the counted measure.
C9_Witness ==
    /\ Returned
    /\ CountColumns # {}
    /\ Len(data_df.rows) = 2
    /\ Cardinality(NonNullDimensionRows) = 1
    /\ \E p \in CountColumns : \E i \in 1..Len(data_df.rows) :
            IsNull(data_df.rows[i][MeasureAt(p)])
    /\ Len(cube.rows) = 1

\* C10: on a table with zero rows the call raises nothing and returns a cube
\* with zero rows and the declared columns: the dimensions, then the
\* measure_function columns.
C10_EmptyCubeSchema ==
    (pc = "done" /\ data_df # NoFrame /\ data_df.rows = <<>>) =>
        /\ err = "none"
        /\ cube.rows = <<>>
        /\ Len(cube.columns) = Len(dimensions) + Len(MetricPairs(metrics))
        /\ SubSeq(cube.columns, 1, Len(dimensions)) = dimensions

\* A request create_olap_cube cannot serve: no dimension, or a dimension or a
\* measure that is not a column of the table.
InvalidRequest ==
    \/ dimensions = <<>>
    \/ \E i \in 1..Len(dimensions) : dimensions[i] \notin Range(CubeColumns)
    \/ \E i \in 1..Len(metrics) : metrics[i].column \notin Range(CubeColumns)

\* C11: a request with no dimension, or with a dimension or a measure that is
\* not a column of the table, fails with the error of a column not found
\* (KeyError, logged with the requested names) and yields no cube, whatever
\* the table holds, a table with zero rows included.
C11_ValidatesRequest ==
    (pc = "done" /\ data_df # NoFrame /\ InvalidRequest) =>
        /\ err = "KeyError"
        /\ ErrorKey \in out
        /\ cube = NoFrame

\* The part of C11 the code meets: on a table with rows, a dimension or a
\* measure that is not a column fails with KeyError and yields no cube.
C11_MissingColumnOnRows ==
    (pc = "done" /\ data_df # NoFrame /\ data_df.rows # <<>> /\ dimensions # <<>>
        /\ InvalidRequest)
    => (err = "KeyError" /\ ErrorKey \in out /\ cube = NoFrame)

\* The dimension values of input row i, read from the table
TupleOf(i) == [d \in 1..Len(dimensions) |-> data_df.rows[i][dimensions[d]]]

\* The dimension values of cube row g
CubeKey(g) == SubSeq(cube.rows[g], 1, Len(dimensions))

\* C12: the cube holds one row per distinct tuple of dimension values found
\* in the input rows that have no missing dimension value: every such tuple
\* is the key of a cube row, no two cube rows have the same key, and no cube
\* row has a missing dimension value (rows with one belong to no group).
C12_GroupsByExactTuple ==
    (Returned /\ data_df.rows # <<>>) =>
        /\ {CubeKey(g) : g \in 1..Len(cube.rows)}
                = {TupleOf(i) : i \in NonNullDimensionRows}
        /\ \A g, h \in 1..Len(cube.rows) : CubeKey(g) = CubeKey(h) => g = h
        /\ \A g \in 1..Len(cube.rows) : \A d \in 1..Len(dimensions) :
                ~IsNull(cube.rows[g][d])

\* A cube on two dimensions over three rows: two with the same value in the
\* first dimension and different values in the second, one with a missing
\* dimension value; the cube has the two rows of the two tuples.
C12_Witness ==
    /\ Returned
    /\ Len(dimensions) = 2
    /\ Len(data_df.rows) = 3
    /\ Cardinality(NonNullDimensionRows) = 2
    /\ \E i, j \in NonNullDimensionRows :
            /\ TupleOf(i)[1] = TupleOf(j)[1]
            /\ TupleOf(i)[2] # TupleOf(j)[2]
    /\ Len(cube.rows) = 2

-----------------------------------------------------------------------------
(* Further properties of the star-schema build *)

\* The dimension frame gives key n to the attribute tuple that is the n-th
\* to appear in the source, and to nothing else.
KeysInFirstSeenOrder(dim, key, names) ==
    LET cols     == PresentCols(names, analytic_df)
        src      == SelectCols(analytic_df, cols).rows
        first(t) == CHOOSE i \in 1..Len(src) : src[i] = t /\ \A j \in 1..(i - 1) : src[j] # t
        earlier(t) == {u \in Range(src) : first(u) < first(t)}
    IN  /\ Len(dim.rows) = Cardinality(Range(src))
        /\ {dim.rows[i][key] : i \in 1..Len(dim.rows)}
                = {Some(n) : n \in 1..Cardinality(Range(src))}
        /\ \A t \in Range(src) : \E i \in 1..Len(dim.rows) :
                /\ [c \in Range(cols) |-> dim.rows[i][c]] = t
                /\ dim.rows[i][key] = Some(Cardinality(earlier(t)) + 1)

DimTables == {"dim_demographics", "dim_region", "dim_risk"}

\* C13: each dimension build gives the keys 1..N, each once, to the N
\* distinct attribute tuples of the source, the n-th tuple to appear getting
\* key n; and a run on the source the store was last built from commits the
\* same dimension rows, keys included, as were there before it.
C13_KeysInFirstSeenOrder ==
    /\ dim_demo_df # NoFrame =>
            KeysInFirstSeenOrder(dim_demo_df, "demographics_key", DemoCols)
    /\ dim_region_df # NoFrame =>
            KeysInFirstSeenOrder(dim_region_df, "region_key", <<"region">>)
    /\ dim_risk_df # NoFrame =>
            KeysInFirstSeenOrder(dim_risk_df, "risk_key", RiskCols)
    /\ (pc \in {"close", "done"} /\ err = "none" /\ before.source = builtFrom) =>
            \A t \in DimTables : committed.rows[t] = before.rows[t]

\* Two source rows with one demographic profile and two regions: one
\* demographics key, and region keys 1 and 2 in the order of the source rows.
C13_Witness ==
    /\ dim_risk_df # NoFrame
    /\ Len(analytic_df.rows) = 2
    /\ analytic_df.rows[1]["region"] # analytic_df.rows[2]["region"]
    /\ Len(dim_demo_df.rows) = 1
    /\ dim_demo_df.rows[1]["demographics_key"] = Some(1)
    /\ Len(dim_region_df.rows) = 2
    /\ \A i \in 1..2 :
            /\ dim_region_df.rows[i]["region_key"] = Some(i)
            /\ dim_region_df.rows[i]["region"] = analytic_df.rows[i]["region"]

\* The positions of the DELETE and of the INSERT statements of the run
Deletes == {i \in 1..Len(stmts) : stmts[i][1] = "DELETE"}
Inserts == {i \in 1..Len(stmts) : stmts[i][1] = "INSERT"}

\* C14: in a run, every DELETE precedes every INSERT, and an INSERT is made
\* only after all four tables were cleared: between the last DELETE and the
\* first INSERT the open transaction holds no row.  The first DELETE is that
\* of the fact table and the others are those of the dimension tables, each
\* once.  The INSERT of the fact table is the last one and comes after those
\* of the three dimension tables.
C14_ClearBeforeInsert ==
    /\ \A d \in Deletes : \A i \in Inserts : d < i
    /\ Inserts # {} => {stmts[d][2] : d \in Deletes} = TableNames
    /\ (pc # "done" /\ Inserts = {} /\ Cardinality(Deletes) = Cardinality(TableNames)) =>
            \A t \in TableNames : txn.rows[t] = <<>>
    /\ Deletes # {} => stmts[1] = <<"DELETE", "fact_insurance_charges">>
    /\ \A d \in Deletes : d > 1 => stmts[d][2] \in DimTables
    /\ \A d, e \in Deletes : stmts[d][2] = stmts[e][2] => d = e
    /\ \A i \in Inserts : stmts[i][2] = "fact_insurance_charges" =>
            /\ {stmts[j][2] : j \in {k \in Inserts : k < i}} = DimTables
            /\ \A j \in Inserts : j <= i

\* A committed rebuild of a populated store: four DELETEs, then the three
\* dimension INSERTs, then the fact INSERT.
C14_Witness ==
    /\ pc = "done" /\ err = "none"
    /\ Len(before.rows["fact_insurance_charges"]) = 2
    /\ Cardinality(Deletes) = 4
    /\ Cardinality(Inserts) = 4
    /\ stmts[Len(stmts)] = <<"INSERT", "fact_insurance_charges">>

\* C15: the frame the fact build produces has one row per source row, in
\* the order of the source and with that row's charges; and a fact build that
\* raised nothing has inserted that many rows, which the commit keeps.
C15_OneFactRowPerSourceRow ==
    /\ fact_df # NoFrame =>
            /\ Len(fact_df.rows) = Len(analytic_df.rows)
            /\ \A i \in 1..Len(fact_df.rows) :
                    fact_df.rows[i]["charges"] = analytic_df.rows[i]["charges"]
    /\ pc = "commit" => Len(FactRowsOf(txn)) = Len(analytic_df.rows)
    /\ (pc \in {"close", "done"} /\ err = "none") =>
            Len(FactRowsOf(committed)) = Len(analytic_df.rows)

\* A committed build from two identical source rows: one row in each
\* dimension table, two fact rows.
C15_Witness ==
    /\ pc = "done" /\ err = "none"
    /\ Len(analytic_df.rows) = 2
    /\ analytic_df.rows[1] = analytic_df.rows[2]
    /\ Len(committed.rows["dim_demographics"]) = 1
    /\ Len(fact_df.rows) = 2
    /\ Len(FactRowsOf(committed)) = 2

\* The steps of a run after the source was loaded
AfterLoad ==
    {"build_dim_demographics", "build_dim_region", "build_dim_risk",
     "insert_dim_demographics", "insert_dim_region", "insert_dim_risk",
     "build_and_insert_fact", "commit", "close"}

\* C16: from the load to the end of the run the source table is the table
\* read from the file, with its rows, columns and order, whatever builds have
\* run; so each dimension table is the one its build gives on the table of
\* the file, and the fact table has the rows of that table.
C16_SourceUnchanged ==
    (pc \in AfterLoad /\ analytic_df # NoFrame) =>
        /\ analytic_df = Frame(csv)
        /\ dim_demo_df # NoFrame =>
                Attributes(dim_demo_df)
                    = DedupRows(SelectCols(Frame(csv), PresentCols(DemoCols, Frame(csv))).rows, {})
        /\ dim_region_df # NoFrame =>
                Attributes(dim_region_df)
                    = DedupRows(SelectCols(Frame(csv), <<"region">>).rows, {})
        /\ dim_risk_df # NoFrame =>
                Attributes(dim_risk_df)
                    = DedupRows(SelectCols(Frame(csv), PresentCols(RiskCols, Frame(csv))).rows, {})
        /\ fact_df # NoFrame =>
                \A i \in 1..Len(csv.rows) :
                    fact_df.rows[i]["charges"] = csv.rows[i]["charges"]

\* The three dimension builds and the fact build have run on a source of two
\* rows, which is still the table of the file and has no key column.
C16_Witness ==
    /\ pc = "commit"
    /\ fact_df # NoFrame
    /\ Len(analytic_df.rows) = 2
    /\ analytic_df = Frame(csv)
    /\ \A k \in 1..Len(KeyColumns) : ~HasCol(analytic_df, KeyColumns[k])
    /\ HasCol(fact_df, "demographics_key")

=============================================================================
